---------------------------- MODULE Spec2Model ----------------------------
(* Task Manager API (index.js): an in-memory array of tasks behind five    *)
(* Express routes.  Every handler runs to completion, so one request is    *)
(* one atomic step.  A task object is a record; its field ref is the       *)
(* object's identity (allocation order), which JavaScript keeps for every  *)
(* object and which find() and the JSON response hand around.              *)
EXTENDS Integers, Sequences, FiniteSets, TLC

(* ------------------------------ bounds -------------------------------- *)
\* successful creates, updates and deletes a behaviour may contain
MaxCreates == 1
MaxUpdates == 1
MaxDeletes == 2

(* --------------------------- JavaScript values ------------------------- *)
\* a value: its typeof tag and its content; a task's title and completed
\* hold the values the request carried
Str(s)  == [t |-> "string",  v |-> s]
Bool(b) == [t |-> "boolean", v |-> b]
Num(n)  == [t |-> "number",  v |-> n]
Undefined == [t |-> "undefined"]

typeof(x) == x.t

\* parseInt of no digits
NaN == [nan |-> TRUE, n |-> 0]
Int_(n) == [nan |-> FALSE, n |-> n]

\* t.id === parseInt(...): NaN is equal to nothing
StrictEquals(id, r) == ~r.nan /\ id = r.n

DecDigits == <<"0", "1", "2", "3", "4", "5", "6", "7", "8", "9">>
HexLower  == <<"a", "b", "c", "d", "e", "f">>
HexUpper  == <<"A", "B", "C", "D", "E", "F">>

\* value of character c as a digit, -1 when it is none
DigitValue(c) ==
  IF \E d \in 1..10 : DecDigits[d] = c
  THEN (CHOOSE d \in 1..10 : DecDigits[d] = c) - 1
  ELSE IF \E d \in 1..6 : HexLower[d] = c
  THEN (CHOOSE d \in 1..6 : HexLower[d] = c) + 9
  ELSE IF \E d \in 1..6 : HexUpper[d] = c
  THEN (CHOOSE d \in 1..6 : HexUpper[d] = c) + 9
  ELSE -1

IsDigit(c, radix) == DigitValue(c) >= 0 /\ DigitValue(c) < radix

WhiteSpace == {" "}

RECURSIVE TrimStart(_)
TrimStart(s) ==
  IF s # <<>> /\ Head(s) \in WhiteSpace THEN TrimStart(Tail(s)) ELSE s

\* length of the longest prefix of s made of digits of the radix
RECURSIVE DigitPrefix(_, _)
DigitPrefix(s, radix) ==
  IF s # <<>> /\ IsDigit(Head(s), radix)
  THEN 1 + DigitPrefix(Tail(s), radix)
  ELSE 0

\* value of the digit string s read left to right, acc the value so far
RECURSIVE DigitsValue(_, _, _)
DigitsValue(s, radix, acc) ==
  IF s = <<>> THEN acc
  ELSE DigitsValue(Tail(s), radix, acc * radix + DigitValue(Head(s)))

\* parseInt(string) with no radix: leading white space, a sign, a 0x prefix
\* (radix 16), then the longest run of digits; NaN when there is none
parseInt(s) ==
  LET t     == TrimStart(s)
      sign  == IF t # <<>> /\ Head(t) = "-" THEN -1 ELSE 1
      u     == IF t # <<>> /\ Head(t) \in {"+", "-"} THEN Tail(t) ELSE t
      hex   == Len(u) >= 2 /\ u[1] = "0" /\ u[2] \in {"x", "X"}
      radix == IF hex THEN 16 ELSE 10
      z     == IF hex THEN SubSeq(u, 3, Len(u)) ELSE u
      k     == DigitPrefix(z, radix)
  IN  IF k = 0 THEN NaN
      ELSE Int_(sign * DigitsValue(SubSeq(z, 1, k), radix, 0))

(* ------------------------------- requests ------------------------------ *)
\* path segments a client sends as :id, as character sequences
Params == {
  <<"5">>, <<"6">>, <<"3", "x">>, <<"0", "x", "5">>, <<"a", "b", "c">> }

\* values of the body's title and completed; Undefined is a missing field
TitleValues     == {Str("X"), Num(7), Undefined}
CompletedValues == {Bool(TRUE), Bool(FALSE), Str("true")}
Bodies == [title : TitleValues, completed : CompletedValues]

\* parseInt(req.params.id) of every path segment sent
parsedId == [p \in Params |-> parseInt(p)]

(* ------------------------------ the store ------------------------------ *)
SeedTasks == <<
  [id |-> 1, title |-> Str("Learn Express"),             completed |-> Bool(FALSE), ref |-> 1],
  [id |-> 2, title |-> Str("Build a REST API"),          completed |-> Bool(FALSE), ref |-> 2],
  [id |-> 3, title |-> Str("Test API with Postman"),     completed |-> Bool(TRUE),  ref |-> 3],
  [id |-> 4, title |-> Str("Add Swagger Documentation"), completed |-> Bool(FALSE), ref |-> 4],
  [id |-> 5, title |-> Str("Deploy to Server"),          completed |-> Bool(FALSE), ref |-> 5] >>

\* variant: findLastIndex, the last match instead of the first
findIndex_last(ts, param) ==
  LET r == parsedId[param]
      hits == {i \in 1..Len(ts) : StrictEquals(ts[i].id, r)}
  IN  IF hits = {} THEN -1
      ELSE (CHOOSE i \in hits : \A j \in hits : i >= j) - 1

\* Array.prototype.findIndex over t => t.id === parseInt(param):
\* the 0-based index of the first match, -1 when there is none
findIndex(ts, param) ==
  LET r == parsedId[param]
      hits == {i \in 1..Len(ts) : StrictEquals(ts[i].id, r)}
  IN  IF hits = {} THEN -1
      ELSE (CHOOSE i \in hits : \A j \in hits : i <= j) - 1

\* variant: && in place of ||, rejecting only when both fields are wrong
InvalidData_and(body) ==
  typeof(body.title) # "string" /\ typeof(body.completed) # "boolean"

\* the validation of create and update
InvalidData(body) ==
  typeof(body.title) # "string" \/ typeof(body.completed) # "boolean"

\* variant: the largest id in use + 1
NewTaskId_max(ts) ==
  IF ts = <<>> THEN 1
  ELSE (CHOOSE m \in {ts[i].id : i \in 1..Len(ts)} :
          \A i \in 1..Len(ts) : ts[i].id <= m) + 1

\* tasks.length + 1
NewTaskId(ts) == Len(ts) + 1

\* variant: tasks.unshift(newTask)
push_front(ts, x) == <<x>> \o ts

\* tasks.push(newTask)
push(ts, x) == Append(ts, x)

\* variant: swap-remove, the last element moved into the hole
splice_swap(ts, idx) ==
  [left    |-> IF idx + 1 = Len(ts) THEN SubSeq(ts, 1, Len(ts) - 1)
               ELSE SubSeq([ts EXCEPT ![idx + 1] = ts[Len(ts)]], 1, Len(ts) - 1),
   removed |-> <<ts[idx + 1]>>]

\* tasks.splice(taskIndex, 1): the array left and the array of the removed
splice(ts, idx) ==
  [left    |-> SubSeq(ts, 1, idx) \o SubSeq(ts, idx + 2, Len(ts)),
   removed |-> <<ts[idx + 1]>>]

\* variant: every task carrying the id is overwritten
assign_all(ts, idx, title, completed) ==
  [i \in 1..Len(ts) |->
     IF ts[i].id = ts[idx + 1].id
     THEN [ts[i] EXCEPT !.title = title, !.completed = completed]
     ELSE ts[i]]

\* task.title = title; task.completed = completed on the object at idx
assign(ts, idx, title, completed) ==
  [ts EXCEPT ![idx + 1].title = title, ![idx + 1].completed = completed]


(* ------------------------------- responses ----------------------------- *)
NoParam == <<>>
NoBody  == [title |-> Undefined, completed |-> Undefined]

NotFound    == [status |-> 404, success |-> FALSE, message |-> "Task not found"]
InvalidResp == [status |-> 400, success |-> FALSE, message |-> "Invalid data"]
Ok(status, data, message) ==
  [status |-> status, success |-> TRUE, data |-> data, message |-> message]

(* ------------------------------- handlers ------------------------------ *)
\* each handler: the array after the request and the response sent

\* app.get('/api/tasks')
listHandler(ts) ==
  [tasks |-> ts, resp |-> Ok(200, ts, "Tasks fetched successfully")]

\* app.get('/api/tasks/:id')
getHandler(ts, param) ==
  LET idx == findIndex(ts, param)
  IN  IF idx = -1 THEN [tasks |-> ts, resp |-> NotFound]
      ELSE [tasks |-> ts,
            resp  |-> Ok(200, ts[idx + 1], "Task fetched successfully")]

\* app.post('/api/tasks'); ref is the identity of the object it allocates
postHandler(ts, body, ref) ==
  IF InvalidData(body) THEN [tasks |-> ts, resp |-> InvalidResp]
  ELSE LET newTask == [id |-> NewTaskId(ts), title |-> body.title,
                       completed |-> body.completed, ref |-> ref]
       IN  [tasks |-> push(ts, newTask),
            resp  |-> Ok(201, newTask, "Task created successfully")]

\* variant: the payload validated before the task is resolved
putHandler_validateFirst(ts, param, body) ==
  LET idx == findIndex(ts, param)
  IN  IF InvalidData(body) THEN [tasks |-> ts, resp |-> InvalidResp]
      ELSE IF idx = -1 THEN [tasks |-> ts, resp |-> NotFound]
      ELSE LET ts2 == assign(ts, idx, body.title, body.completed)
           IN  [tasks |-> ts2,
                resp  |-> Ok(200, ts2[idx + 1], "Task updated successfully")]

\* app.put('/api/tasks/:id')
putHandler(ts, param, body) ==
  LET idx == findIndex(ts, param)
  IN  IF idx = -1 THEN [tasks |-> ts, resp |-> NotFound]
      ELSE IF InvalidData(body) THEN [tasks |-> ts, resp |-> InvalidResp]
      ELSE LET ts2 == assign(ts, idx, body.title, body.completed)
           IN  [tasks |-> ts2,
                resp  |-> Ok(200, ts2[idx + 1], "Task updated successfully")]

\* app.delete('/api/tasks/:id')
deleteHandler(ts, param) ==
  LET idx == findIndex(ts, param)
  IN  IF idx = -1 THEN [tasks |-> ts, resp |-> NotFound]
      ELSE LET sp == splice(ts, idx)
           IN  [tasks |-> sp.left,
                resp  |-> Ok(200, sp.removed, "Task deleted successfully")]

(* ----------------------------- state machine --------------------------- *)
VARIABLES
  tasks,     \* the array `tasks`
  req,       \* the last request handled: [op, param, body]
  resp,      \* the response to it
  nextRef,   \* identity of the next object allocated
  assigned,  \* history: every id ever given to a task
  nUpdates,  \* history: successful updates so far
  nDeletes   \* history: successful deletes so far

vars == <<tasks, req, resp, nextRef, assigned, nUpdates, nDeletes>>

Request(op, param, body) == [op |-> op, param |-> param, body |-> body]

Ids(ts) == {ts[i].id : i \in 1..Len(ts)}

Init ==
  /\ tasks = SeedTasks
  /\ req = Request("none", NoParam, NoBody)
  /\ resp = [status |-> 0, success |-> FALSE, message |-> ""]
  /\ nextRef = Len(SeedTasks) + 1
  /\ assigned = Ids(SeedTasks)
  /\ nUpdates = 0
  /\ nDeletes = 0

List ==
  LET h == listHandler(tasks)
  IN  /\ tasks' = h.tasks
      /\ resp' = h.resp
      /\ req' = Request("LIST", NoParam, NoBody)
      /\ UNCHANGED <<nextRef, assigned, nUpdates, nDeletes>>

Get(param) ==
  LET h == getHandler(tasks, param)
  IN  /\ tasks' = h.tasks
      /\ resp' = h.resp
      /\ req' = Request("GET", param, NoBody)
      /\ UNCHANGED <<nextRef, assigned, nUpdates, nDeletes>>

Post(body) ==
  LET h == postHandler(tasks, body, nextRef)
      created == h.resp.status = 201
  IN  /\ created => nextRef <= Len(SeedTasks) + MaxCreates
      /\ tasks' = h.tasks
      /\ resp' = h.resp
      /\ req' = Request("POST", NoParam, body)
      /\ nextRef' = IF created THEN nextRef + 1 ELSE nextRef
      /\ assigned' = IF created THEN assigned \cup {h.resp.data.id} ELSE assigned
      /\ UNCHANGED <<nUpdates, nDeletes>>

Put(param, body) ==
  LET h == putHandler(tasks, param, body)
      updated == h.resp.status = 200
  IN  /\ updated => nUpdates < MaxUpdates
      /\ tasks' = h.tasks
      /\ resp' = h.resp
      /\ req' = Request("PUT", param, body)
      /\ nUpdates' = IF updated THEN nUpdates + 1 ELSE nUpdates
      /\ UNCHANGED <<nextRef, assigned, nDeletes>>

Delete(param) ==
  LET h == deleteHandler(tasks, param)
      deleted == h.resp.status = 200
  IN  /\ deleted => nDeletes < MaxDeletes
      /\ tasks' = h.tasks
      /\ resp' = h.resp
      /\ req' = Request("DELETE", param, NoBody)
      /\ nDeletes' = IF deleted THEN nDeletes + 1 ELSE nDeletes
      /\ UNCHANGED <<nextRef, assigned, nUpdates>>

Next ==
  \/ List
  \/ \E param \in Params : Get(param)
  \/ \E body \in Bodies : Post(body)
  \/ \E param \in Params, body \in Bodies : Put(param, body)
  \/ \E param \in Params : Delete(param)

Spec == Init /\ [][Next]_vars

(* ------------------------------ properties ----------------------------- *)
\* vocabulary of the claims, stated without the handlers' helpers
IsText(x)    == x.t = "string"
IsBoolean(x) == x.t = "boolean"
ValidPayload(body) == IsText(body.title) /\ IsBoolean(body.completed)

\* positions of the tasks whose id the path segment names
Matching(ts, param) ==
  {i \in 1..Len(ts) : ~parsedId[param].nan /\ ts[i].id = parsedId[param].n}
IdPresent(ts, param) == Matching(ts, param) # {}
FirstMatching(ts, param) ==
  CHOOSE i \in Matching(ts, param) : \A j \in Matching(ts, param) : i <= j

Refs(ts) == [i \in 1..Len(ts) |-> ts[i].ref]
RemoveAt(sq, i) == SubSeq(sq, 1, i - 1) \o SubSeq(sq, i + 1, Len(sq))

\* C1: in every reachable state no two tasks of the collection share an id.
C1_UniqueIds ==
  \A i, j \in 1..Len(tasks) : i # j => tasks[i].id # tasks[j].id

\* C2: the id a successful create assigns is a positive integer that no
\* earlier task, seed or created, deleted or not, was ever given.
C2_FreshId ==
  [][(req'.op = "POST" /\ resp'.status = 201)
       => (resp'.data.id > 0 /\ resp'.data.id \notin assigned)]_vars

\* C3: a POST with a text title and a boolean completed responds 201 with
\* success, appends exactly one task at the end (length + 1, earlier tasks
\* unchanged), and that task, also the one returned, has id = previous
\* length + 1 and the title and completed given.
C3_CreateAppends ==
  [][(req'.op = "POST" /\ ValidPayload(req'.body))
       => /\ resp'.status = 201
          /\ resp'.success
          /\ Len(tasks') = Len(tasks) + 1
          /\ tasks' = Append(tasks, resp'.data)
          /\ resp'.data.id = Len(tasks) + 1
          /\ resp'.data.title = req'.body.title
          /\ resp'.data.completed = req'.body.completed]_vars

C3_Witness ==
  /\ req.op = "POST"
  /\ resp.status = 201
  /\ nDeletes > 0
  /\ tasks[Len(tasks)] = resp.data

\* C4: a DELETE of an id present in the collection responds 200, shortens
\* the collection by exactly 1 and leaves no task with that id, so that a GET
\* or a second DELETE of the same id right after it responds 404.
C4_DeleteRemovesId ==
  [][/\ (req'.op = "DELETE" /\ IdPresent(tasks, req'.param))
          => /\ resp'.status = 200
             /\ Len(tasks') = Len(tasks) - 1
             /\ ~IdPresent(tasks', req'.param)
     /\ (/\ req.op = "DELETE" /\ resp.status = 200
         /\ req'.op \in {"GET", "DELETE"} /\ req'.param = req.param)
          => resp'.status = 404]_vars

\* C5: a PUT on an id present in the collection with a valid payload
\* responds 200 and overwrites title and completed of the task resolved for
\* that id (the first carrying it); that task's id and position, the length
\* and every field of every other task stay as they were.
C5_UpdateFrame ==
  [][(req'.op = "PUT" /\ IdPresent(tasks, req'.param) /\ ValidPayload(req'.body))
       => LET i == FirstMatching(tasks, req'.param)
          IN  /\ resp'.status = 200
              /\ resp'.success
              /\ Len(tasks') = Len(tasks)
              /\ tasks'[i] = [id |-> tasks[i].id, ref |-> tasks[i].ref,
                              title |-> req'.body.title,
                              completed |-> req'.body.completed]
              /\ \A j \in 1..Len(tasks) : j # i => tasks'[j] = tasks[j]
              /\ resp'.data = tasks'[i]]_vars

C5_Witness ==
  /\ req.op = "PUT"
  /\ resp.status = 200
  /\ Cardinality(Matching(tasks, req.param)) = 2
  /\ resp.data.title = Str("X")

\* C6: a GET, PUT or DELETE whose path identifier matches no task (also one
\* that parses to no integer) responds 404 with success=false and leaves the
\* collection unchanged; for PUT whatever the payload, never 400.
C6_MissingIs404 ==
  [][(req'.op \in {"GET", "PUT", "DELETE"} /\ ~IdPresent(tasks, req'.param))
       => /\ resp'.status = 404
          /\ ~resp'.success
          /\ tasks' = tasks]_vars

C6_Witness ==
  /\ req.op = "PUT"
  /\ parsedId[req.param].nan
  /\ ~ValidPayload(req.body)
  /\ resp.status = 404

\* C7: a POST whose title is not text or whose completed is not boolean, and
\* a PUT on an existing id with such a payload, responds 400 with
\* success=false and leaves the whole collection unchanged.
C7_InvalidIs400 ==
  [][(/\ req'.op = "POST" \/ (req'.op = "PUT" /\ IdPresent(tasks, req'.param))
      /\ ~ValidPayload(req'.body))
       => /\ resp'.status = 400
          /\ ~resp'.success
          /\ tasks' = tasks]_vars

C7_Witness ==
  /\ req.op = "PUT"
  /\ IdPresent(tasks, req.param)
  /\ IsText(req.body.title)
  /\ ~IsBoolean(req.body.completed)
  /\ resp.status = 400

\* C8: for every id present in the collection, GET of that id responds 200
\* with success=true and with data that very task (the first carrying the
\* id, with its current title and completed), and modifies nothing.
C8_GetReturnsTask ==
  [][(req'.op = "GET" /\ IdPresent(tasks, req'.param))
       => /\ resp'.status = 200
          /\ resp'.success
          /\ resp'.data = tasks[FirstMatching(tasks, req'.param)]
          /\ tasks' = tasks]_vars

C8_Witness ==
  /\ req.op = "GET"
  /\ resp.status = 200
  /\ resp.data.title = Str("X")
  /\ resp.data.ref > Len(SeedTasks)

\* C9: the collection keeps insertion order: the tasks stand in the order
\* they were inserted and the list response returns them so; create appends
\* at the end, update moves nothing, delete removes one entry and keeps the
\* order of the rest.
C9_InsertionOrder ==
  /\ [](/\ \A i, j \in 1..Len(tasks) : i < j => tasks[i].ref < tasks[j].ref
        /\ req.op = "LIST" => resp.data = tasks)
  /\ [][/\ (req'.op = "POST" /\ resp'.status = 201)
             => Refs(tasks') = Append(Refs(tasks), nextRef)
        /\ req'.op = "PUT" => Refs(tasks') = Refs(tasks)
        /\ (req'.op = "DELETE" /\ resp'.status = 200)
             => \E i \in 1..Len(tasks) : Refs(tasks') = RemoveAt(Refs(tasks), i)]_vars

C9_Witness ==
  /\ req.op = "LIST"
  /\ nDeletes > 0
  /\ nextRef > Len(SeedTasks) + 1
  /\ Len(resp.data) = Len(SeedTasks)
  /\ resp.data[Len(resp.data)].ref = Len(SeedTasks) + 1

\* C10: as long as no DELETE has succeeded, the task at position k has id k
\* (the ids are exactly 1..length), and a create has given its task an id
\* greater than every other id in the collection.
C10_IdsAreIndices ==
  nDeletes = 0
    => /\ \A k \in 1..Len(tasks) : tasks[k].id = k
       /\ (req.op = "POST" /\ resp.status = 201)
            => /\ \E k \in 1..Len(tasks) : tasks[k] = resp.data
               /\ \A k \in 1..Len(tasks) :
                    tasks[k] # resp.data => tasks[k].id < resp.data.id

C10_Witness ==
  /\ nDeletes = 0
  /\ nUpdates > 0
  /\ req.op = "POST"
  /\ resp.status = 201

=============================================================================
